---------------------------- MODULE Spec2Model ----------------------------
(***************************************************************************)
(* Model of x/merkledb's raw-disk store: the disk branch node codec        *)
(* (encodeDiskBranchNode / decodeDiskBranchNode / encodeDiskBranchNodeSize)*)
(* at the level of bytes, and rawDisk's operations on its backing file.    *)
(*                                                                         *)
(* A byte is a number in 0..255, a byte slice a sequence of bytes, the     *)
(* backing file the sequence of its bytes (file[i+1] is the byte at        *)
(* offset i).  A Key is modelled by its byte tokens (tokenSize = 8 bits),  *)
(* so key.length = 8 * Len(tokens).                                        *)
(***************************************************************************)
EXTENDS Integers, Sequences, FiniteSets, TLC

VARIABLES
    file,      \* rawDisk.file: the bytes of merkle.db
    pc,        \* "idle", inside writeChanges ("wc_range"), or "panicked"
    wc,        \* writeChanges' locals: the batch, fileSize, currOffset, changeSize
    last,      \* the last finished call: its name, inputs and what it returned
    written,   \* the addresses of the nodes written with writeDiskAtNode, latest first
    cx         \* the codec exercise: a node, its iteration order and the results

vars == <<file, pc, wc, last, written, cx>>

(***************************************************************************)
(* Bounds of the model                                                     *)
(***************************************************************************)
MaxChildren == 2      \* children per node drawn as codec input
MaxNodeWrites == 3    \* node writes into one file before it is cleared

(***************************************************************************)
(* Program constants                                                       *)
(***************************************************************************)
diskAddressSize == 16
rootKeyDiskAddressOffset == 1
MaxUint8 == 255
boolLen == 1
IDLen == 32
BranchFactorLargest == 256
tokenSize == 8

Byte == 0..255

\* maybe.Maybe[[]byte]
Nothing == [has |-> FALSE, val |-> <<>>]
Some(v) == [has |-> TRUE, val |-> v]

\* diskAddress{offset, size}
diskAddress(o, s) == [offset |-> o, size |-> s]
emptyDiskAddress == diskAddress(0, 0)

\* r.end()
end(r) == r.offset + r.size

\* ids.ID: 32 bytes; the model's ids repeat one byte
TestID(k) == [i \in 1..IDLen |-> k]

\* diskChild{child{compressedKey, id, hasValue}, address}
diskChild(ck, id, hv, addr) ==
    [compressedKey |-> ck, id |-> id, hasValue |-> hv, address |-> addr]

\* diskBranchNode{value, children}; children is a function from indices
diskBranchNode(v, ch) == [value |-> v, children |-> ch]
NoChildren == [i \in {} |-> 0]
NoNode == diskBranchNode(Nothing, NoChildren)

(***************************************************************************)
(* Byte-level primitives of the codec                                      *)
(***************************************************************************)
RECURSIVE PutUvarint(_)
PutUvarint(v) ==
    IF v < 128 THEN <<v>> ELSE <<(v % 128) + 128>> \o PutUvarint(v \div 128)

RECURSIVE uintSize(_)
uintSize(v) == IF v < 128 THEN 1 ELSE 1 + uintSize(v \div 128)

\* big-endian 8 bytes
RECURSIVE BigEndian(_, _)
BigEndian(v, n) ==
    IF n = 0 THEN <<>> ELSE BigEndian(v \div 256, n - 1) \o <<v % 256>>

RECURSIVE BigEndianValue(_)
BigEndianValue(b) ==
    IF Len(b) = 0 THEN 0
    ELSE 256 * BigEndianValue(SubSeq(b, 1, Len(b) - 1)) + b[Len(b)]

Drop(b, n) == SubSeq(b, n + 1, Len(b))
Take(b, n) == SubSeq(b, 1, n)

\* a reader's result: the error ("" for none), the value and the rest
Got(v, rest) == [err |-> "", v |-> v, rest |-> rest]
Fail(e) == [err |-> e, v |-> 0, rest |-> <<>>]

RECURSIVE ReadUvarintFrom(_, _, _, _)
ReadUvarintFrom(b, i, acc, mul) ==
    IF i > Len(b) THEN Fail("ErrUnexpectedEOF")
    ELSE IF b[i] < 128
         THEN IF i > 1 /\ b[i] = 0 THEN Fail("errLeadingZeroes")
              ELSE Got(acc + b[i] * mul, Drop(b, i))
         ELSE ReadUvarintFrom(b, i + 1, acc + (b[i] - 128) * mul, mul * 128)

ReadUvarint(b) == ReadUvarintFrom(b, 1, 0, 1)

WriteBool(x) == IF x THEN <<1>> ELSE <<0>>

ReadBool(b) ==
    IF Len(b) < boolLen THEN Fail("ErrUnexpectedEOF")
    ELSE IF b[1] = 0 THEN Got(FALSE, Drop(b, 1))
    ELSE IF b[1] = 1 THEN Got(TRUE, Drop(b, 1))
    ELSE Fail("errInvalidBool")

WriteBytes(v) == PutUvarint(Len(v)) \o v

ReadBytes(b) ==
    LET n == ReadUvarint(b) IN
    IF n.err # "" THEN Fail(n.err)
    ELSE IF n.v > Len(n.rest) THEN Fail("ErrUnexpectedEOF")
    ELSE Got(Take(n.rest, n.v), Drop(n.rest, n.v))

WriteMaybeBytes(m) ==
    IF m.has THEN WriteBool(TRUE) \o WriteBytes(m.val) ELSE WriteBool(FALSE)

ReadMaybeBytes(b) ==
    LET h == ReadBool(b) IN
    IF h.err # "" THEN Fail(h.err)
    ELSE IF ~h.v THEN Got(Nothing, h.rest)
    ELSE LET v == ReadBytes(h.rest) IN
         IF v.err # "" THEN Fail(v.err) ELSE Got(Some(v.v), v.rest)

\* a Key of whole bytes: its length in bits, then its bytes
KeyLength(k) == tokenSize * Len(k)

WriteKey(k) == PutUvarint(KeyLength(k)) \o k

keySize(k) == uintSize(KeyLength(k)) + Len(k)

\* the model's keys are sequences of whole bytes; a bit length that is not a
\* multiple of the token size has no key of the model and is refused
ReadKey(b) ==
    LET n == ReadUvarint(b) IN
    IF n.err # "" THEN Fail(n.err)
    ELSE IF n.v % tokenSize # 0 THEN Fail("errPartialToken")
    ELSE IF n.v \div tokenSize > Len(n.rest) THEN Fail("ErrUnexpectedEOF")
    ELSE Got(Take(n.rest, n.v \div tokenSize), Drop(n.rest, n.v \div tokenSize))

WriteID(id) == id

ReadID(b) ==
    IF Len(b) < IDLen THEN Fail("ErrUnexpectedEOF")
    ELSE Got(Take(b, IDLen), Drop(b, IDLen))

childSize(index, c) ==
    uintSize(index) + IDLen + keySize(c.compressedKey) + boolLen

(***************************************************************************)
(* encodeDiskBranchNode                                                    *)
(***************************************************************************)
\* the keys left in the order the map's iteration gave
Unsorted(keys) == keys

\* an insertion that puts the new key first
InsertFront(sorted, k) == <<k>> \o sorted

\* slices.Sort(keys)
RECURSIVE Insert(_, _)
Insert(sorted, k) ==
    IF Len(sorted) = 0 THEN <<k>>
    ELSE IF k < sorted[1] THEN <<k>> \o sorted
    ELSE <<sorted[1]>> \o Insert(Drop(sorted, 1), k)

RECURSIVE Sort(_)
Sort(keys) ==
    IF Len(keys) = 0 THEN <<>>
    ELSE Insert(Sort(Drop(keys, 1)), keys[1])

\* the orders in which "for k := range n.children" may yield the keys
Orders(S) == {o \in [1..Cardinality(S) -> S] : \A k \in S : \E i \in DOMAIN o : o[i] = k}

RangeOrder(n) == CHOOSE o \in Orders(DOMAIN n.children) : TRUE

\* one child entry, lines 38-44
EncodeEntry(index, entry) ==
    PutUvarint(index) \o WriteKey(entry.compressedKey) \o WriteID(entry.id)
        \o WriteBool(entry.hasValue)
        \o PutUvarint(entry.address.offset) \o PutUvarint(entry.address.size)

RECURSIVE EncodeEntries(_, _)
EncodeEntries(n, keys) ==
    IF Len(keys) = 0 THEN <<>>
    ELSE EncodeEntry(keys[1], n.children[keys[1]]) \o EncodeEntries(n, Drop(keys, 1))

\* encodeDiskBranchNode with the map's iteration order made explicit
encodeDiskBranchNodeRange(n, order) ==
    LET numChildren == Cardinality(DOMAIN n.children) IN
    WriteMaybeBytes(n.value) \o PutUvarint(numChildren)
        \o (IF numChildren = 0 THEN <<>> ELSE EncodeEntries(n, Sort(order)))

encodeDiskBranchNode(n) == encodeDiskBranchNodeRange(n, RangeOrder(n))

(***************************************************************************)
(* encodeDiskBranchNodeSize                                                *)
(***************************************************************************)
RECURSIVE SumChildSize(_, _)
SumChildSize(n, S) ==
    IF S = {} THEN 0
    ELSE LET i == CHOOSE x \in S : TRUE IN
         childSize(i, n.children[i]) + SumChildSize(n, S \ {i})

encodeDiskBranchNodeSize(n) ==
    LET numChildren == Cardinality(DOMAIN n.children) IN
    uintSize(numChildren) + boolLen
        + diskAddressSize * numChildren
        + (IF n.value.has THEN uintSize(Len(n.value.val)) + Len(n.value.val) ELSE 0)
        + SumChildSize(n, DOMAIN n.children)

(***************************************************************************)
(* decodeDiskBranchNode                                                    *)
(***************************************************************************)
Decoded(n) == [err |-> "", node |-> n]
DecodeError(e) == [err |-> e, node |-> diskBranchNode(Nothing, NoChildren)]

\* a check of the index's range alone
BadIndexRangeOnly(i, index, previousChild) == index > MaxUint8

\* the check of line 78
BadIndex(i, index, previousChild) ==
    (i # 0 /\ index <= previousChild) \/ index > MaxUint8

\* an end of decoding that lets bytes remain
DecodeEndLenient(b, value, ch) == Decoded(diskBranchNode(value, ch))

\* lines 115-118: no byte may remain after the last child
DecodeEnd(b, value, ch) ==
    IF Len(b) # 0 THEN DecodeError("errExtraSpace")
    ELSE Decoded(diskBranchNode(value, ch))

\* the loop of lines 73-114: i children read so far into ch
RECURSIVE DecodeChildren(_, _, _, _, _, _)
DecodeChildren(b, i, numChildren, previousChild, value, ch) ==
    IF i >= numChildren
    THEN DecodeEnd(b, value, ch)
    ELSE
    LET index == ReadUvarint(b) IN
    IF index.err # "" THEN DecodeError(index.err)
    ELSE IF BadIndex(i, index.v, previousChild) THEN DecodeError("errChildIndexTooLarge")
    ELSE
    LET compressedKey == ReadKey(index.rest) IN
    IF compressedKey.err # "" THEN DecodeError(compressedKey.err)
    ELSE
    LET childID == ReadID(compressedKey.rest) IN
    IF childID.err # "" THEN DecodeError(childID.err)
    ELSE
    LET hasValue == ReadBool(childID.rest) IN
    IF hasValue.err # "" THEN DecodeError(hasValue.err)
    ELSE
    LET offset == ReadUvarint(hasValue.rest) IN
    IF offset.err # "" THEN DecodeError(offset.err)
    ELSE
    LET size == ReadUvarint(offset.rest) IN
    IF size.err # "" THEN DecodeError(size.err)
    ELSE
    LET entry == diskChild(compressedKey.v, childID.v, hasValue.v,
                           diskAddress(offset.v, size.v))
        ch2 == [k \in (DOMAIN ch) \cup {index.v} |->
                   IF k = index.v THEN entry ELSE ch[k]]
    IN DecodeChildren(size.rest, i + 1, numChildren, index.v, value, ch2)

decodeDiskBranchNode(b) ==
    LET value == ReadMaybeBytes(b) IN
    IF value.err # "" THEN DecodeError(value.err)
    ELSE
    LET numChildren == ReadUvarint(value.rest) IN
    IF numChildren.err # "" THEN DecodeError(numChildren.err)
    ELSE IF numChildren.v > BranchFactorLargest THEN DecodeError("errTooManyChildren")
    ELSE DecodeChildren(numChildren.rest, 0, numChildren.v, 0, value.v, NoChildren)

(***************************************************************************)
(* The backing file: os.File's ReadAt, WriteAt and Truncate                *)
(***************************************************************************)
Max(a, b) == IF a >= b THEN a ELSE b

\* F applied to the value of e
Bind(e, F(_)) == CHOOSE y \in {F(x) : x \in {e}} : TRUE

\* f.ReadAt(make([]byte, n), off): n bytes, or io.EOF when the file is shorter
ReadAt(f, off, n) ==
    IF n = 0 THEN [err |-> "", bytes |-> <<>>]
    ELSE IF off + n > Len(f) THEN [err |-> "EOF", bytes |-> <<>>]
    ELSE [err |-> "", bytes |-> SubSeq(f, off + 1, off + n)]

\* f.WriteAt(b, off): the file grows as needed, a gap reads as zeroes
WriteAt(f, off, b) ==
    IF Len(b) = 0 THEN f
    ELSE [i \in 1..Max(Len(f), off + Len(b)) |->
             IF i > off /\ i <= off + Len(b) THEN b[i - off]
             ELSE IF i <= Len(f) THEN f[i] ELSE 0]

\* a truncation that drops every byte
TruncateToNothing(f, size) == <<>>

\* a truncation that leaves the file as it is
TruncateKeeps(f, size) == f

\* f.Truncate(size)
Truncate(f, size) ==
    [i \in 1..size |-> IF i <= Len(f) THEN f[i] ELSE 0]

(***************************************************************************)
(* diskAddress                                                             *)
(***************************************************************************)
\* r.bytes(): offset and size, 8 big-endian bytes each
diskAddressBytes(r) == BigEndian(r.offset, 8) \o BigEndian(r.size, 8)

\* int64(binary.BigEndian.Uint64(b)).  The model's files are far shorter than
\* 2^24 bytes, so a value of 2^24 or more is kept only by its class:
\* TooLarge (below 2^48) or OutOfRange (2^48 and above, and the negatives).
TooLarge == -1
OutOfRange == -2
Int64(b) ==
    IF b[1] # 0 \/ b[2] # 0 THEN OutOfRange
    ELSE IF b[3] # 0 \/ b[4] # 0 \/ b[5] # 0 THEN TooLarge
    ELSE BigEndianValue(SubSeq(b, 6, 8))

\* r.decode(diskAddressBytes)
diskAddressDecode(b) == diskAddress(Int64(SubSeq(b, 1, 8)), Int64(SubSeq(b, 9, 16)))

(***************************************************************************)
(* readNodeFromDisk, writeDiskAtNode                                       *)
(***************************************************************************)
\* make([]byte, int(address.size)) panics for a length out of range; ReadAt
\* fails for a negative offset and at the end of the file
readNodeFromDisk(f, address) ==
    IF address.size = OutOfRange THEN DecodeError("panic: makeslice")
    ELSE IF address.size = TooLarge \/ address.offset = TooLarge THEN DecodeError("EOF")
    ELSE IF address.offset = OutOfRange THEN DecodeError("negative offset")
    ELSE Bind(ReadAt(f, address.offset, address.size),
              LAMBDA r : IF r.err # "" THEN DecodeError(r.err)
                         ELSE decodeDiskBranchNode(r.bytes))

\* a write that lands one byte after the offset asked for
writeDiskAtNodeShifted(f, offset, branchNodeBytes) == WriteAt(f, offset + 1, branchNodeBytes)

\* r.file.WriteAt(branchNodeBytes, offset)
writeDiskAtNode(f, offset, branchNodeBytes) == WriteAt(f, offset, branchNodeBytes)

(***************************************************************************)
(* Key                                                                     *)
(***************************************************************************)
\* key.Token(bitIndex, tokenSize)
Token(key, bitIndex) == key[(bitIndex \div tokenSize) + 1]

\* key.Take(bitsToTake)
KeyTake(key, bitsToTake) ==
    IF KeyLength(key) <= bitsToTake THEN key ELSE Take(key, bitsToTake \div tokenSize)

\* key.iteratedHasPrefix(prefix, bitsOffset, tokenSize)
iteratedHasPrefix(key, prefix, bitsOffset) ==
    /\ KeyLength(key) - bitsOffset >= KeyLength(prefix)
    /\ \A i \in 1..Len(prefix) :
          Token(key, bitsOffset + (i - 1) * tokenSize) = prefix[i]

(***************************************************************************)
(* getNode                                                                 *)
(***************************************************************************)
\* convertDiskBranchNodeToNode: the node's children without their addresses
child(c) == [compressedKey |-> c.compressedKey, id |-> c.id, hasValue |-> c.hasValue]
convertDiskBranchNodeToNode(key, dbn) ==
    [key |-> key, value |-> dbn.value,
     children |-> [i \in DOMAIN dbn.children |-> child(dbn.children[i])]]

\* the state of the loop of lines 471-487: the current node, the length of
\* currentNodeKey, the error that ended the loop, and the child nodes read
Descent(err, node, length, reads) ==
    [err |-> err, node |-> node, length |-> length, reads |-> reads]

\* an advance by the token alone
AdvanceTokenOnly(key, length, compressedKey) ==
    KeyLength(KeyTake(key, length + tokenSize))

\* the advance of line 486
Advance(key, length, compressedKey) ==
    KeyLength(KeyTake(key, length + tokenSize + KeyLength(compressedKey)))

\* following nextChildEntry: lines 481-486
FollowChild(f, key, d, nextChildEntry) ==
    Bind(readNodeFromDisk(f, nextChildEntry.address),
         LAMBDA childNode :
            Descent(childNode.err, childNode.node,
                    IF childNode.err # "" THEN d.length
                    ELSE Advance(key, d.length, nextChildEntry.compressedKey),
                    d.reads + 1))

\* an iteration that follows the child without comparing its compressed key
GetNodeStepNoPrefix(f, key, d) ==
    LET t == Token(key, d.length) IN
    IF t \notin DOMAIN d.node.children
    THEN Descent("ErrFailedToFindNode", NoNode, d.length, d.reads)
    ELSE FollowChild(f, key, d, d.node.children[t])

\* one iteration of the loop: lines 473-486
GetNodeStep(f, key, d) ==
    LET t == Token(key, d.length) IN
    IF t \notin DOMAIN d.node.children
    THEN Descent("ErrFailedToFindNode", NoNode, d.length, d.reads)
    ELSE IF ~iteratedHasPrefix(key, d.node.children[t].compressedKey, d.length + tokenSize)
    THEN Descent("ErrFailedToFindNode", NoNode, d.length, d.reads)
    ELSE FollowChild(f, key, d, d.node.children[t])

RECURSIVE GetNodeLoop(_, _, _)
GetNodeLoop(f, key, d) ==
    IF d.err # "" \/ d.length >= KeyLength(key) THEN d
    ELSE Bind(GetNodeStep(f, key, d), LAMBDA next : GetNodeLoop(f, key, next))

\* lines 447-487: the root address, the root node, the descent
getNodeRun(f, key) ==
    LET slot == ReadAt(f, rootKeyDiskAddressOffset, diskAddressSize) IN
    IF slot.err # "" THEN Descent(slot.err, NoNode, 0, 0)
    ELSE Bind(readNodeFromDisk(f, diskAddressDecode(slot.bytes)),
              LAMBDA merkleRootNode :
                 GetNodeLoop(f, key, Descent(merkleRootNode.err, merkleRootNode.node, 0, 0)))

getNode(f, key) ==
    Bind(getNodeRun(f, key),
         LAMBDA r :
            IF r.err # ""
            THEN [err |-> r.err, node |-> convertDiskBranchNodeToNode(<<>>, NoNode)]
            ELSE [err |-> "", node |-> convertDiskBranchNodeToNode(key, r.node)])

(***************************************************************************)
(* The store's state                                                       *)
(***************************************************************************)
\* a finished call: the operation, its error ("" for nil), its input, the
\* node it returned, and for readNodeFromDisk the call before it when that
\* call wrote or read the same address
Call(op, err, arg, node, prior) ==
    [op |-> op, err |-> err, arg |-> arg, node |-> node, prior |-> prior]
NoPrior == [op |-> "", err |-> "", arg |-> <<>>, node |-> NoNode, priorOp |-> ""]
Prior(c) ==
    [op |-> c.op, err |-> c.err, arg |-> c.arg, node |-> c.node, priorOp |-> c.prior.op]

cxInit ==
    [done |-> FALSE, n |-> NoNode, order |-> <<>>, bytes |-> <<>>, size |-> 0,
     dec |-> DecodeError(""), cut |-> FALSE, cuts |-> <<>>, tails |-> <<>>]

lastInit == Call("newRawDisk", "", <<>>, NoNode, NoPrior)

\* while a writeChanges runs, the call finished before it is no longer kept
NoCall == Call("", "", <<>>, NoNode, NoPrior)

NoChanges == [k \in {} |-> 0]
NoMap == [k \in {} |-> 0]
NoRoot == [err |-> "", node |-> NoNode]
wcInit ==
    [nodes |-> NoChanges, fileSize |-> 0, currOffset |-> 0, changeSize |-> 0,
     frontierSet |-> <<>>, nodeToDiskAddressMap |-> NoMap, childToParentMap |-> NoMap,
     writes |-> <<>>, before |-> NoRoot]

\* newRawDisk on a new directory: O_CREATE makes an empty merkle.db
Init ==
    /\ file = <<>>
    /\ pc = "idle"
    /\ wc = wcInit
    /\ last = lastInit
    /\ written = <<>>
    /\ cx = cxInit

(***************************************************************************)
(* setShutdownType, the root address slot, Clear                           *)
(***************************************************************************)
ShutdownTypes == {<<1>>, <<>>}

SetShutdownType(shutdownType) ==
    /\ pc = "idle"
    /\ IF Len(shutdownType) # 1
       THEN /\ last' = Call("setShutdownType", "invalid shutdown type", shutdownType,
                            NoNode, NoPrior)
            /\ file' = file
       ELSE /\ last' = Call("setShutdownType", "", shutdownType, NoNode, NoPrior)
            /\ file' = WriteAt(file, 0, shutdownType)
    /\ UNCHANGED <<pc, wc, written, cx>>

\* the root address stored as the tests' set-up stores it: WriteAt(bytes, 1)
WriteRootKeyAddress(address) ==
    /\ pc = "idle"
    /\ file' = WriteAt(file, rootKeyDiskAddressOffset, diskAddressBytes(address))
    /\ last' = Call("writeRootKeyAddress", "", address, NoNode, NoPrior)
    /\ UNCHANGED <<pc, wc, written, cx>>

\* Clear's record holds the length of the file it truncated
Clear ==
    /\ pc = "idle"
    /\ file' = Truncate(file, 0)
    /\ written' = <<>>
    /\ last' = Call("Clear", "", Len(file), NoNode, NoPrior)
    /\ UNCHANGED <<pc, wc, cx>>

(***************************************************************************)
(* The operations that are not implemented                                 *)
(***************************************************************************)
\* lines 317-319
ClearIntermediateNodes ==
    /\ pc = "idle"
    /\ last' = Call("clearIntermediateNodes",
                    "clear intermediate nodes and rebuild not supported for raw disk",
                    <<>>, NoNode, NoPrior)
    /\ UNCHANGED <<file, pc, wc, written, cx>>

\* lines 321-323
CompactRanges == {<<(<<>>), (<<>>)>>, <<(<<97>>), (<<98>>)>>}
\* a Compact that does nothing and reports success
CompactSilent(start, limit) ==
    /\ pc = "idle"
    /\ last' = Call("Compact", "", <<start, limit>>, NoNode, NoPrior)
    /\ UNCHANGED <<file, pc, wc, written, cx>>

Compact(start, limit) ==
    /\ pc = "idle"
    /\ last' = Call("Compact", "not implemented", <<start, limit>>, NoNode, NoPrior)
    /\ UNCHANGED <<file, pc, wc, written, cx>>

(***************************************************************************)
(* Nodes written and read back                                             *)
(***************************************************************************)
\* the nodes a caller may store next: a value or none, and children at the
\* tokens 'a' and 'b' that point at the nodes written last (w is the sequence
\* of their addresses, the latest first)
NodeValues == {Nothing, Some(<<1>>)}
PointAt(ck, address) == diskChild(ck, TestID(1), TRUE, address)
ChildShapes(w) ==
    {NoChildren}
    \cup (IF Len(w) >= 1
          THEN {[i \in {97} |-> PointAt(<<>>, w[1])],
                [i \in {97} |-> PointAt(<<98>>, w[1])],
                [i \in {98} |-> PointAt(<<>>, w[1])]}
          ELSE {})
    \cup (IF Len(w) >= 2
          THEN {[i \in {97, 98} |-> PointAt(<<>>, IF i = 97 THEN w[1] ELSE w[2])]}
          ELSE {})
DiskNodes(w) == {diskBranchNode(v, ch) : v \in NodeValues, ch \in ChildShapes(w)}

\* where a caller writes: at the end of the file, or at the start of the
\* node store of a file that holds no node yet
nodeStoreOffset == 18
WriteOffsets ==
    IF Len(written) # 0 THEN {Len(file)}
    ELSE {nodeStoreOffset} \cup (IF Len(file) = 0 THEN {0} ELSE {})

WriteDiskAtNode(offset, n) ==
    /\ pc = "idle"
    /\ Len(written) < MaxNodeWrites
    /\ \E branchNodeBytes \in {encodeDiskBranchNode(n)} :
       /\ file' = writeDiskAtNode(file, offset, branchNodeBytes)
       /\ written' = <<diskAddress(offset, Len(branchNodeBytes))>> \o written
       /\ last' = Call("writeDiskAtNode", "",
                       [address |-> diskAddress(offset, Len(branchNodeBytes)), n |-> n],
                       NoNode, NoPrior)
    /\ UNCHANGED <<pc, wc, cx>>

\* the call before this read, kept when it wrote this address or read it
PriorOf(address) ==
    IF \/ (last.op = "writeDiskAtNode" /\ last.arg.address = address)
       \/ (last.op = "readNodeFromDisk" /\ last.arg = address /\ last.prior.op # "readNodeFromDisk")
    THEN Prior(last) ELSE NoPrior

ReadNodeFromDisk(address) ==
    /\ pc = "idle"
    /\ \E r \in {readNodeFromDisk(file, address)} :
          last' = Call("readNodeFromDisk", r.err, address, r.node, PriorOf(address))
    /\ UNCHANGED <<file, pc, wc, written, cx>>

Keys == {<<>>, <<97>>, <<97, 98>>, <<98>>, <<99>>}

\* the Clear before this getNode, kept when only getNode calls followed it
PriorClear ==
    IF last.op = "Clear" THEN Prior(last)
    ELSE IF last.op = "getNode" /\ last.prior.op = "Clear" THEN last.prior
    ELSE NoPrior

\* getNode takes no lock: it also runs between the steps of a writeChanges
GetNode(key) ==
    /\ pc \in {"idle", "wc_range", "wc_frontier"}
    /\ \E r \in {getNode(file, key)} :
          last' = Call("getNode", r.err, key, r.node, PriorClear)
    /\ UNCHANGED <<file, pc, wc, written, cx>>

(***************************************************************************)
(* writeChanges                                                            *)
(***************************************************************************)
\* a change's node after the change: its value and its children (compressed
\* key, id, hasValue), keyed by token
Change(value, children) == [value |-> value, children |-> children]
ChildOf(ck, hv) == [compressedKey |-> ck, id |-> TestID(1), hasValue |-> hv]
Leaf(v) == Change(Some(v), NoChildren)

\* the change batches handed to writeChanges: none; a root leaf; the trie with
\* keys a, ab and b; a root whose child a is not in the batch; a root with one
\* changed leaf reached over a compressed key
EmptyBatch == NoChanges
RootLeafBatch == [k \in {<<>>} |-> Leaf(<<1>>)]
TrieBatch ==
    [k \in {<<>>, <<97>>, <<97, 98>>, <<98>>} |->
        IF k = <<>>
        THEN Change(Nothing, [i \in {97, 98} |-> ChildOf(<<>>, TRUE)])
        ELSE IF k = <<97>> THEN Change(Some(<<1>>), [i \in {98} |-> ChildOf(<<>>, TRUE)])
        ELSE IF k = <<97, 98>> THEN Leaf(<<2>>)
        ELSE Leaf(<<3>>)]
RootOnlyBatch ==
    [k \in {<<>>} |-> Change(Some(<<1>>), [i \in {97} |-> ChildOf(<<>>, TRUE)])]
CompressedBatch ==
    [k \in {<<>>, <<97, 98>>} |->
        IF k = <<>> THEN Change(Nothing, [i \in {97} |-> ChildOf(<<98>>, TRUE)])
        ELSE Leaf(<<2>>)]
Batches == {EmptyBatch, RootLeafBatch, TrieBatch, RootOnlyBatch, CompressedBatch}

\* frontierSet := make([]diskBranchNodeWithKey, len(changes.nodes)): that many
\* zero elements (the empty key, a nil node)
NilNode == "nil"
FrontierMake(n) == [i \in 1..n |-> [key |-> <<>>, dbn |-> NilNode]]

\* the root node the file holds, as getNode finds it
RootOnDisk(f) ==
    Bind(getNodeRun(f, <<>>), LAMBDA r : [err |-> r.err, node |-> r.node])

\* what a finished run leaves for its caller to see: the batch, the file size
\* the run started from, the root node stored then, the run's calls of
\* writeDiskAtNode (line 414) as pairs of key and address, in order, the
\* addresses it assigned (lines 389-393) and its child-to-parent index
\* (lines 378-382)
RunOf(w) ==
    [nodes |-> w.nodes, fileSize |-> w.fileSize, before |-> w.before, writes |-> w.writes,
     addresses |-> w.nodeToDiskAddressMap, parents |-> w.childToParentMap]

\* lines 343-360: the file's size, and the empty frontier and maps
WriteChangesStat(changes) ==
    /\ pc = "idle"
    /\ pc' = "wc_range"
    /\ wc' = [nodes |-> changes, fileSize |-> Len(file), currOffset |-> Len(file),
              changeSize |-> 0,
              frontierSet |-> FrontierMake(Cardinality(DOMAIN changes)),
              nodeToDiskAddressMap |-> NoMap, childToParentMap |-> NoMap,
              writes |-> <<>>, before |-> RootOnDisk(file)]
    /\ last' = NoCall
    /\ UNCHANGED <<file, written, cx>>

\* lines 361-363, the first iteration over a batch that is not empty: dbn is
\* declared a nil *diskBranchNode and "dbn.value = ..." dereferences it.  The
\* run ends in a panic before any address is assigned or any byte written.
WriteChangesRangePanic ==
    /\ pc = "wc_range"
    /\ DOMAIN wc.nodes # {}
    /\ pc' = "panicked"
    /\ last' = Call("writeChanges", "panic: nil pointer dereference",
                    RunOf(wc), NoNode, NoPrior)
    /\ wc' = wcInit
    /\ UNCHANGED <<file, written, cx>>

\* the size passed to Truncate at line 400
AllocatedSizeNoBase(fileSize, changeSize) == changeSize
AllocatedSize(fileSize, changeSize) == fileSize + changeSize

\* lines 361-403 for the empty batch: the range loop has nothing to do and the
\* file is truncated to fileSize + changeSize
WriteChangesTruncate ==
    /\ pc = "wc_range"
    /\ DOMAIN wc.nodes = {}
    /\ file' = Truncate(file, AllocatedSize(wc.fileSize, wc.changeSize))
    /\ pc' = "wc_frontier"
    /\ UNCHANGED <<wc, last, written, cx>>

\* lines 405-440 with the frontier empty, as it is whenever the range loop
\* has ended: the loop's body does not run and writeChanges returns nil
WriteChangesReturn ==
    /\ pc = "wc_frontier"
    /\ Len(wc.frontierSet) = 0
    /\ pc' = "idle"
    /\ last' = Call("writeChanges", "",
                    RunOf(wc), NoNode, NoPrior)
    /\ wc' = wcInit
    /\ UNCHANGED <<file, written, cx>>

\* after a panic the process is gone; newRawDisk opens the same merkle.db
NewRawDisk ==
    /\ pc = "panicked"
    /\ pc' = "idle"
    /\ last' = lastInit
    /\ UNCHANGED <<file, wc, written, cx>>

(***************************************************************************)
(* The store's specification                                               *)
(***************************************************************************)
Range(q) == {q[i] : i \in DOMAIN q}
ReadAddresses == Range(written) \cup {diskAddress(18, 3)}

Next ==
    \/ \E st \in ShutdownTypes : SetShutdownType(st)
    \/ \E a \in Range(written) : WriteRootKeyAddress(a)
    \/ \E o \in WriteOffsets : \E n \in DiskNodes(written) : WriteDiskAtNode(o, n)
    \/ \E a \in ReadAddresses : ReadNodeFromDisk(a)
    \/ \E k \in Keys : GetNode(k)
    \/ Clear
    \/ ClearIntermediateNodes
    \/ \E range \in CompactRanges : Compact(range[1], range[2])
    \/ \E b \in Batches : WriteChangesStat(b)
    \/ WriteChangesRangePanic
    \/ WriteChangesTruncate
    \/ WriteChangesReturn
    \/ NewRawDisk

Spec == Init /\ [][Next]_vars

(***************************************************************************)
(* The codec exercised on bounded inputs                                   *)
(***************************************************************************)
CodecValues == {Nothing, Some(<<>>), Some(<<1>>), Some(<<7, 7>>), Some([i \in 1..130 |-> 5])}
CodecIndices == {0, 97, 200}
CodecAddresses == {diskAddress(0, 0), diskAddress(10, 100), diskAddress(300, 128)}
CodecChildren ==
    {diskChild(ck, TestID(1), hv, a) :
        ck \in {<<>>, <<98>>}, hv \in BOOLEAN, a \in CodecAddresses}

CodecNodes ==
    {diskBranchNode(v, ch) :
        v \in CodecValues,
        ch \in UNION {[S -> CodecChildren] :
                        S \in {T \in SUBSET CodecIndices : Cardinality(T) <= MaxChildren}}}

\* encode cx.n (its children ranged over in cx.order), size it, decode the bytes
CodecRoundTrip ==
    /\ ~cx.done
    /\ cx' = [cx EXCEPT !.done = TRUE,
                        !.bytes = encodeDiskBranchNodeRange(cx.n, cx.order),
                        !.size = encodeDiskBranchNodeSize(cx.n),
                        !.dec = decodeDiskBranchNode(encodeDiskBranchNodeRange(cx.n, cx.order))]
    /\ UNCHANGED <<file, pc, wc, last, written>>

InitCodec ==
    /\ file = <<>>
    /\ pc = "idle"
    /\ wc = wcInit
    /\ last = lastInit
    /\ written = <<>>
    /\ \E n \in CodecNodes : \E order \in Orders(DOMAIN n.children) :
          cx = [cxInit EXCEPT !.n = n, !.order = order]

\* decode every strict prefix of cx.bytes, and cx.bytes followed by each of
\* ExtraTails; cuts[k] is the error for the prefix of k - 1 bytes
ExtraTails == <<(<<0>>), (<<1>>), (<<0, 0>>), (<<255, 1>>)>>
CodecTruncate ==
    /\ cx.done
    /\ ~cx.cut
    /\ cx' = [cx EXCEPT !.cut = TRUE,
                        !.cuts = [k \in 1..Len(cx.bytes) |->
                                    decodeDiskBranchNode(Take(cx.bytes, k - 1)).err],
                        !.tails = [j \in DOMAIN ExtraTails |->
                                    decodeDiskBranchNode(cx.bytes \o ExtraTails[j]).err]]
    /\ UNCHANGED <<file, pc, wc, last, written>>

NextCodec == CodecRoundTrip \/ CodecTruncate

SpecCodec == InitCodec /\ [][NextCodec]_vars

(***************************************************************************)
(* The decoder exercised on bytes no encoder call produces                 *)
(***************************************************************************)
\* bytes laid out as encodeDiskBranchNode lays them out, but with the child
\* entries at the indices idx in the order given: any order, with repeats,
\* with indices above 255
MaxRawEntries == 3
RawIndices == {0, 97, 200, 255, 256, 300}
RawIndexSeqs == UNION {[1..k -> RawIndices] : k \in 0..MaxRawEntries}
RawChild == diskChild(<<98>>, TestID(1), TRUE, diskAddress(10, 100))

RECURSIVE RawEntries(_)
RawEntries(idx) ==
    IF Len(idx) = 0 THEN <<>>
    ELSE EncodeEntry(idx[1], RawChild) \o RawEntries(Drop(idx, 1))

RawBytes(value, idx) ==
    WriteMaybeBytes(value) \o PutUvarint(Len(idx)) \o RawEntries(idx)

\* decode the bytes with the entries cx.order
DecodeRaw ==
    /\ ~cx.done
    /\ cx' = [cx EXCEPT !.done = TRUE,
                        !.bytes = RawBytes(cx.n.value, cx.order),
                        !.dec = decodeDiskBranchNode(RawBytes(cx.n.value, cx.order))]
    /\ UNCHANGED <<file, pc, wc, last, written>>

InitDecode ==
    /\ file = <<>>
    /\ pc = "idle"
    /\ wc = wcInit
    /\ last = lastInit
    /\ written = <<>>
    /\ \E v \in {Nothing, Some(<<1>>)} : \E idx \in RawIndexSeqs :
          cx = [cxInit EXCEPT !.n = diskBranchNode(v, NoChildren), !.order = idx]

NextDecode == DecodeRaw

SpecDecode == InitDecode /\ [][NextDecode]_vars

(***************************************************************************)
(* Claims about nodes written and read back                                *)
(***************************************************************************)
\* C10: after writeDiskAtNode stored the encoding of a node n at an address,
\* readNodeFromDisk of that address returns a node equal to n, and reading the
\* same address again with no write in between returns the same node.
C10_WriteThenRead ==
    last.op = "readNodeFromDisk" =>
        /\ last.prior.op = "writeDiskAtNode" =>
              (last.err = "" /\ last.node = last.prior.arg.n)
        /\ last.prior.op = "readNodeFromDisk" =>
              (last.err = last.prior.err /\ last.node = last.prior.node)

\* C10's case: a node with children was written, then read, then read again
\* from the same address, and the second read returned it.
C10_Witness ==
    /\ last.op = "readNodeFromDisk"
    /\ last.prior.op = "readNodeFromDisk"
    /\ last.prior.priorOp = "writeDiskAtNode"
    /\ last.err = ""
    /\ DOMAIN last.node.children = {97, 98}
    /\ last.node.value = Some(<<1>>)

(***************************************************************************)
(* Claims about writeChanges                                               *)
(***************************************************************************)
\* the key of the child of the node at key p under token t
ChildKey(p, t, c) == p \o <<t>> \o c.compressedKey

\* the tokens of the children of nodes[p] that are in the batch themselves
ChangedChildren(nodes, p) ==
    {t \in DOMAIN nodes[p].children : ChildKey(p, t, nodes[p].children[t]) \in DOMAIN nodes}

\* the batch's topmost node
BatchRoot(nodes) == CHOOSE k \in DOMAIN nodes : \A j \in DOMAIN nodes : Len(k) <= Len(j)

\* the positions in a run's writes at which the node of key k was written
WritesOf(run, k) == {i \in DOMAIN run.writes : run.writes[i].key = k}

\* the bytes at address decode to the node the batch has for a key
Holds(f, address, change) ==
    LET r == readNodeFromDisk(f, address) IN
    /\ r.err = ""
    /\ r.node.value = change.value
    /\ DOMAIN r.node.children = DOMAIN change.children
    /\ \A t \in DOMAIN change.children : child(r.node.children[t]) = change.children[t]

\* the address a stored node has for its child t
StoredChildAddress(f, address, t) == readNodeFromDisk(f, address).node.children[t].address

\* a run of writeChanges on a batch that is not empty has ended
Committed == last.op = "writeChanges" /\ DOMAIN last.arg.nodes # {}

C7_AppendOnly ==
    [][/\ pc \in {"wc_range", "wc_frontier"} =>
             /\ Len(file') >= wc.fileSize
             /\ Take(file', wc.fileSize) = Take(file, wc.fileSize)
       /\ Clear \/ Len(file') >= Len(file)]_vars

\* C7's case: writeChanges has run to its return on a file that holds nodes
\* after the header, and the file has the length it had at the start.
C7_Witness ==
    /\ last.op = "writeChanges"
    /\ last.err = ""
    /\ last.arg.fileSize > nodeStoreOffset
    /\ Len(file) = last.arg.fileSize

(***************************************************************************)
(* Claims about getNode                                                    *)
(***************************************************************************)
\* the trie stored under an address, listed from the top: for every node
\* reached by following child addresses, its full key, its level below the
\* root and what reading its address gave
RECURSIVE TrieEntries(_, _, _, _)
TrieEntries(f, address, key, level) ==
    LET r == readNodeFromDisk(f, address) IN
    IF r.err # "" \/ level > MaxNodeWrites
    THEN {[key |-> key, level |-> level, err |-> "unreadable", node |-> NoNode]}
    ELSE {[key |-> key, level |-> level, err |-> "", node |-> r.node]}
         \cup UNION {TrieEntries(f, r.node.children[t].address,
                                 key \o <<t>> \o r.node.children[t].compressedKey,
                                 level + 1) : t \in DOMAIN r.node.children}

\* the entries of the trie the root-address slot points at
StoredTrie(f) ==
    LET slot == ReadAt(f, rootKeyDiskAddressOffset, diskAddressSize) IN
    IF slot.err # "" THEN {[key |-> <<>>, level |-> 0, err |-> "unreadable", node |-> NoNode]}
    ELSE TrieEntries(f, diskAddressDecode(slot.bytes), <<>>, 0)

\* the slot holds an address and every node reached from it decodes
WellFormed(f) == \A e \in StoredTrie(f) : e.err = ""

IsPrefix(p, k) == Len(p) <= Len(k) /\ SubSeq(k, 1, Len(p)) = p

\* the level of the deepest stored node whose key is a prefix of key
DeepestPrefixLevel(f, key) ==
    LET L == {e.level : e \in {x \in StoredTrie(f) : IsPrefix(x.key, key)}} IN
    CHOOSE l \in L : \A m \in L : m <= l

\* C11: on a well-formed stored trie getNode(key) returns the node stored
\* under key, with its key set to the requested key, exactly when the descent
\* from the root matches a child entry (token and compressed key) at every
\* step and ends at the key's length; otherwise it returns
\* ErrFailedToFindNode, having read no child at the step that failed.
C11_GetNodeDescends ==
    (last.op = "getNode" /\ WellFormed(file)) =>
        LET hit == {e \in StoredTrie(file) : e.key = last.arg} IN
        IF hit # {}
        THEN /\ last.err = ""
             /\ \A e \in hit : last.node = convertDiskBranchNodeToNode(last.arg, e.node)
        ELSE /\ last.err = "ErrFailedToFindNode"
             /\ getNodeRun(file, last.arg).reads = DeepestPrefixLevel(file, last.arg)

\* C11's case: getNode("ab") on a stored trie root -> a -> ab returned the
\* leaf found two levels below the root.
C11_Witness ==
    /\ last.op = "getNode"
    /\ last.arg = <<97, 98>>
    /\ last.err = ""
    /\ WellFormed(file)
    /\ \E e \in StoredTrie(file) : e.key = <<97, 98>> /\ e.level = 2

(***************************************************************************)
(* Claims about the codec                                                  *)
(***************************************************************************)
\* C8: for every valid disk branch node n (value absent, empty or non-empty,
\* children with distinct indices) decodeDiskBranchNode(encodeDiskBranchNode(n))
\* succeeds and yields a node equal to n: the same value and, for every child,
\* the same index, compressed key, id, hasValue flag and disk address.
C8_RoundTrip ==
    cx.done => (cx.dec.err = "" /\ cx.dec.node = cx.n)

\* C8's case: a node with a present-but-empty value and two children, one of
\* them at an index of two varint bytes, has been encoded and decoded.
C8_Witness ==
    /\ cx.done
    /\ cx.n.value = Some(<<>>)
    /\ DOMAIN cx.n.children = {97, 200}
    /\ cx.n.children[200].address = diskAddress(300, 128)
    /\ cx.dec.node.children[200].address = diskAddress(300, 128)

\* C9: encodeDiskBranchNodeSize(n) equals the length of encodeDiskBranchNode(n)
\* for every node n, also for nodes with children.
C9_SizeConsistent ==
    cx.done => cx.size = Len(cx.bytes)

\* C9's failing case: a node with children, whose size is not the encoded length.
C9_Witness ==
    cx.done /\ DOMAIN cx.n.children # {} /\ cx.size # Len(cx.bytes)

\* the indices of S in ascending order
RECURSIVE Ascending(_)
Ascending(S) ==
    IF S = {} THEN <<>>
    ELSE LET m == CHOOSE x \in S : \A y \in S : x <= y IN <<m>> \o Ascending(S \ {m})

\* C12: decodeDiskBranchNode fails for every byte sequence whose child
\* entries are not in strictly ascending index order (a duplicate index or an
\* out-of-order index) and for every child index above 255.
C12_RejectsNonAscending ==
    cx.done =>
        ((\/ \E i \in DOMAIN cx.order : cx.order[i] > MaxUint8
          \/ \E i \in 2..Len(cx.order) : cx.order[i] <= cx.order[i - 1])
            => cx.dec.err # "")

\* C12's case: bytes with the index 97 twice were decoded and refused.
C12_Witness ==
    cx.done /\ cx.order = <<0, 97, 97>> /\ cx.dec.err = "errChildIndexTooLarge"

\* C13: for every valid encoding b, decoding any strict prefix of b fails
\* with the end-of-input error, and decoding b followed by one or more extra
\* bytes fails with errExtraSpace; none of these inputs decodes.
C13_TruncationAndTrailing ==
    cx.cut =>
        /\ \A k \in DOMAIN cx.cuts : cx.cuts[k] = "ErrUnexpectedEOF"
        /\ \A j \in DOMAIN cx.tails : cx.tails[j] = "errExtraSpace"

\* C13's case: the encoding of a node with a value and two children was cut
\* at every length and extended by every tail.
C13_Witness ==
    /\ cx.cut
    /\ cx.n.value = Some(<<7, 7>>)
    /\ DOMAIN cx.n.children = {0, 200}
    /\ Len(cx.cuts) = Len(cx.bytes)
    /\ Len(cx.bytes) > 80
    /\ Len(cx.tails) = 4

\* C14: encodeDiskBranchNode emits the child entries in strictly ascending
\* order of index whatever order the children are iterated in, so a node's
\* bytes do not depend on that order.
C14_CanonicalOrder ==
    cx.done =>
        cx.bytes = WriteMaybeBytes(cx.n.value)
                      \o PutUvarint(Cardinality(DOMAIN cx.n.children))
                      \o EncodeEntries(cx.n, Ascending(DOMAIN cx.n.children))

\* C14's case: a node whose two children were iterated in descending order
\* has been encoded.
C14_Witness ==
    cx.done /\ cx.order = <<200, 97>> /\ Len(cx.bytes) > 70

\* C15: at every point of a writeChanges run before the root-address slot is
\* updated, the point where the run fails included, the slot and every node
\* reachable from it are what they were before the run, so a getNode between
\* two steps of the run or after its failure returns what it returned before.
\* (A step that leaves the file as it is leaves all of them as they are.)
C15_StaleButConsistent ==
    [][(pc \in {"wc_range", "wc_frontier", "panicked"} /\ file' # file) =>
          (/\ ReadAt(file', rootKeyDiskAddressOffset, diskAddressSize)
                 = ReadAt(file, rootKeyDiskAddressOffset, diskAddressSize)
           /\ StoredTrie(file') = StoredTrie(file)
           /\ \A k \in Keys : getNode(file', k) = getNode(file, k))
      ]_vars

\* C15's case: a getNode issued between two steps of a run on a non-empty
\* batch found the node of key a in the trie stored before the run.
C15_Witness ==
    /\ pc = "wc_range"
    /\ DOMAIN wc.nodes # {}
    /\ last.op = "getNode"
    /\ last.arg = <<97>>
    /\ last.err = ""
    /\ wc.before.err = ""

\* C16: Compact and clearIntermediateNodes return an error on every call, in
\* every state of the store, and leave the file contents unchanged.
C16_UnimplementedFail ==
    [][(last' # last /\ last'.op \in {"Compact", "clearIntermediateNodes"}) =>
          (last'.err # "" /\ file' = file)]_vars

\* C16's case: Compact has been called on a file that holds a stored trie.
C16_Witness ==
    /\ last.op = "Compact"
    /\ last.arg = <<(<<97>>), (<<98>>)>>
    /\ last.err = "not implemented"
    /\ WellFormed(file)
    /\ Len(written) >= 2

\* C17: Clear truncates the file to length zero, which discards the shutdown
\* marker, the root-address slot and every node; a getNode of any key after
\* the Clear returns an error and no node.
C17_ClearDiscardsAll ==
    /\ last.op = "Clear" => Len(file) = 0
    /\ (last.op = "getNode" /\ last.prior.op = "Clear") =>
           /\ Len(file) = 0
           /\ last.err # ""
           /\ last.node = convertDiskBranchNodeToNode(<<>>, NoNode)

\* C17's case: a file that held nodes was cleared and getNode("a") was
\* called after that.
C17_Witness ==
    /\ last.op = "getNode"
    /\ last.arg = <<97>>
    /\ last.prior.op = "Clear"
    /\ last.prior.arg > nodeStoreOffset + 40
    /\ last.err = "EOF"

\* the byte positions of the range [offset, offset + size)
RangeBytes(r) == r.offset .. (end(r) - 1)

\* C18: a writeChanges run assigns every node of the batch an address, the
\* ranges lying back to back from the end of file found at the start, and
\* grows the file once by the sum of their sizes; every assigned range and
\* every write of the run lies inside [oldEOF, oldEOF + total size).
C18_ReservedRegion ==
    Committed =>
        LET A == last.arg.addresses
            reserved == last.arg.fileSize .. (Len(file) - 1)
        IN /\ DOMAIN A = DOMAIN last.arg.nodes
           /\ \A k \in DOMAIN A : RangeBytes(A[k]) \subseteq reserved
           /\ \A p \in reserved :
                 Cardinality({k \in DOMAIN A : p \in RangeBytes(A[k])}) = 1
           /\ \A i \in DOMAIN last.arg.writes :
                 RangeBytes(last.arg.writes[i].address) \subseteq reserved

C21_TerminatesByReturning ==
    last.op = "writeChanges" =>
        /\ pc # "panicked"
        /\ last.err # "panic: nil pointer dereference"

ChildKeys(nodes) ==
    UNION {{ChildKey(p, t, nodes[p].children[t]) : t \in DOMAIN nodes[p].children} :
              p \in DOMAIN nodes}

\* C23: the child-to-parent index built by writeChanges maps, for every node
\* P of the batch and every child entry of P (token t, compressed key c), the
\* child's full key P + t + c to P, and has no other entry; so a changed node
\* that is not the batch's root is found with its parent and the root is not
\* found.
C23_ChildToParentIndex ==
    Committed =>
        /\ DOMAIN last.arg.parents = ChildKeys(last.arg.nodes)
        /\ \A p \in DOMAIN last.arg.nodes : \A t \in DOMAIN last.arg.nodes[p].children :
              last.arg.parents[ChildKey(p, t, last.arg.nodes[p].children[t])].key = p
        /\ BatchRoot(last.arg.nodes) \notin DOMAIN last.arg.parents

DeepestPrefixKey(f, key) ==
    LET P == {e \in StoredTrie(f) : IsPrefix(e.key, key)} IN
    (CHOOSE e \in P : \A x \in P : x.level <= e.level).key

\* C25: in getNode the matched length starts at 0, grows at every iteration
\* by the token width plus the followed child's compressed-key length and
\* never exceeds key.length; getNode reads one node per level descended below
\* the root and makes at most key.length / tokenSize iterations.
C25_OneReadPerLevel ==
    last.op = "getNode" =>
        LET r == getNodeRun(file, last.arg) IN
        /\ r.length <= KeyLength(last.arg)
        /\ r.reads * tokenSize <= KeyLength(last.arg)
        /\ last.arg = <<>> => (r.length = 0 /\ r.reads = 0)
        /\ WellFormed(file) =>
              /\ r.length = KeyLength(DeepestPrefixKey(file, last.arg))
              /\ r.reads = DeepestPrefixLevel(file, last.arg)
              /\ r.reads * tokenSize <= r.length

\* C25's case: getNode("ab") went down one level over a child with the
\* compressed key b: one read, and the matched length grew by 8 + 8 bits.
C25_Witness ==
    /\ last.op = "getNode"
    /\ last.arg = <<97, 98>>
    /\ last.err = ""
    /\ WellFormed(file)
    /\ getNodeRun(file, <<97, 98>>).reads = 1
    /\ getNodeRun(file, <<97, 98>>).length = 16

=============================================================================
